---- MODULE Spec2Model ----
(***************************************************************************)
(* Model of the go-response library: the APIResponse envelope, its         *)
(* constructors, its JSON encoding and decoding, and the classifier of     *)
(* JSON decoding errors IsJsonErrorGetDetails.                             *)
(*                                                                         *)
(* The library is a set of functions without shared state.  The state of   *)
(* the model is the record of the most recent call: which function was     *)
(* called with which arguments, and what it returned (or that it           *)
(* panicked).  Every function is one action.  A call does not read what    *)
(* an earlier call left, except where the caller passes it on: ToJson      *)
(* takes the envelope the last call returned, the decoder may be given the *)
(* string ToJson returned, and the classifier the error the decoder gave.  *)
(* Calls with arguments of the caller's own start from the idle state, to  *)
(* which Idle returns after any call.                                      *)
(***************************************************************************)
EXTENDS Integers, Sequences, FiniteSets, TLC

(***************************************************************************)
(* Bounds of the model.                                                    *)
(***************************************************************************)
MaxCodeLen == 2      \* longest errorCode argument, in characters
MaxMembers == 2      \* most members of a JSON object given to the decoder
MaxOffset == 1       \* largest byte offset carried by a decoding error
MaxDepth == 1        \* deepest nesting of wrapped errors

(***************************************************************************)
(* Status codes of net/http used by the library.                           *)
(***************************************************************************)
StatusOK == 200
StatusCreated == 201
StatusBadRequest == 400
StatusUnauthorized == 401
StatusForbidden == 403
StatusNotFound == 404
StatusConflict == 409
StatusInternalServerError == 500

StatusCodes ==
    {-1, 0, StatusOK, StatusCreated, StatusBadRequest - 1, StatusBadRequest,
     StatusNotFound, StatusInternalServerError}

(***************************************************************************)
(* Go strings.  A string is a sequence of characters; BadByte is a byte    *)
(* that is not valid UTF-8, RuneError is U+FFFD.  A literal of the source  *)
(* is a sequence of one chunk holding its text.                            *)
(***************************************************************************)
BadByte == "\\xff"
RuneError == "\\ufffd"
Space == " "
Chars == {"a", Space, BadByte}

StrUpTo(n) == UNION {[1..k -> Chars] : k \in 0..n}

IsSpace(c) == c = Space

RECURSIVE TrimLeft(_)
TrimLeft(s) ==
    IF s = <<>> THEN s
    ELSE IF IsSpace(Head(s)) THEN TrimLeft(Tail(s)) ELSE s

RECURSIVE TrimRight(_)
TrimRight(s) ==
    IF s = <<>> THEN s
    ELSE IF IsSpace(s[Len(s)]) THEN TrimRight(SubSeq(s, 1, Len(s) - 1)) ELSE s

\* strings.TrimSpace
TrimSpace(s) == TrimRight(TrimLeft(s))

MsgSuccess == <<"Request was successful">>
MsgBadRequest == <<"Request is in a bad format">>
MsgUnauthorized == <<"Not authenticated to perform the requested action">>
MsgForbidden == <<"Not authorized to perform the requested action">>
MsgNotFound == <<"Requested resource not found">>
MsgConflict == <<"Requested resource already exist">>
MsgInternalServerError == <<"Something went wrong on our end.">>

(***************************************************************************)
(* Go values held by the `any` fields Data and Meta.  GoNil is the nil     *)
(* interface; GoTypedNil is a nil slice, map or pointer stored in the      *)
(* interface (the interface itself is then not nil).  An integer is        *)
(* hi * 2^53 + lo, so that integers a float64 cannot hold are in reach.    *)
(***************************************************************************)
GoNil == [t |-> "nil"]
GoTypedNil == [t |-> "typednil"]
GoChan == [t |-> "chan"]
GoString(s) == [t |-> "string", s |-> s]
GoBool(b) == [t |-> "bool", b |-> b]
GoInt(hi, lo) == [t |-> "int", hi |-> hi, lo |-> lo]
GoFloat64(hi, lo) == [t |-> "float64", hi |-> hi, lo |-> lo]
GoSlice(elems) == [t |-> "slice", elems |-> elems]

(***************************************************************************)
(* JSON values, and the texts handed to the decoder.                       *)
(***************************************************************************)
JNull == [j |-> "null"]
JBool(b) == [j |-> "bool", b |-> b]
JString(s) == [j |-> "string", s |-> s]
JNumber(hi, lo) == [j |-> "number", hi |-> hi, lo |-> lo]
JArray(elems) == [j |-> "array", elems |-> elems]
JObject(members) == [j |-> "object", members |-> members]
Member(k, v) == [k |-> k, v |-> v]

ValidText(v) == [text |-> "valid", v |-> v]
MalformedText(off) == [text |-> "malformed", off |-> off]
EmptyText == [text |-> "empty"]

(***************************************************************************)
(* Error values.                                                           *)
(***************************************************************************)
NilErr == [kind |-> "nil"]
SyntaxError(off) == [kind |-> "SyntaxError", Offset |-> off]
UnmarshalTypeError(f, off) == [kind |-> "UnmarshalTypeError", Field |-> f, Offset |-> off]
UnsupportedTypeError == [kind |-> "UnsupportedTypeError"]
ErrUnexpectedEOF == [kind |-> "ErrUnexpectedEOF"]
EOF == [kind |-> "EOF"]
\* errors.New / fmt.Errorf: a new error value; `by` tells the allocations apart
ErrorString(text, by) == [kind |-> "errorString", text |-> text, by |-> by]
\* a nil *json.SyntaxError / *json.UnmarshalTypeError stored in an error
NilSyntaxError == [kind |-> "nil*SyntaxError"]
NilUnmarshalTypeError == [kind |-> "nil*UnmarshalTypeError"]
\* fmt.Errorf("%w", e) and errors.Join(e1, e2)
WrapError(e) == [kind |-> "wrapError", errs |-> <<e>>]
JoinError(e1, e2) == [kind |-> "joinError", errs |-> <<e1, e2>>]

(***************************************************************************)
(* The envelope.  ErrorCode is a *string: NilPtr, or Ptr(s).               *)
(***************************************************************************)
NilPtr == <<>>
Ptr(s) == <<s>>

NoResp == [nil |-> TRUE]

APIResponse(statusCode, success, msg, errCode, data, meta) ==
    [StatusCode |-> statusCode, Success |-> success, Message |-> msg,
     ErrorCode |-> errCode, Data |-> data, Meta |-> meta]

\* the zero value of the struct
ZeroResponse == APIResponse(0, FALSE, <<>>, NilPtr, GoNil, GoNil)

\* a call that returned r / a call that panicked
Return(r) == [panicked |-> FALSE, resp |-> r]
Panic == [panicked |-> TRUE, resp |-> NoResp]

NewAPIResponse_KeepBlank(statusCode, success, msg, errorCode, data) ==
    Return(APIResponse(statusCode, success, msg,
                       IF errorCode = <<>> THEN NilPtr ELSE Ptr(errorCode),
                       data, GoNil))

NewAPIResponse(statusCode, success, msg, errorCode, data) ==
    LET errCode == IF TrimSpace(errorCode) = <<>> THEN NilPtr ELSE Ptr(errorCode)
    IN  Return(APIResponse(statusCode, success, msg, errCode, data, GoNil))

Error_OffByOne(statusCode, msg, errorCode) ==
    IF statusCode <= StatusBadRequest
    THEN Panic
    ELSE NewAPIResponse(statusCode, FALSE, msg, errorCode, GoNil)

Error(statusCode, msg, errorCode) ==
    IF statusCode < StatusBadRequest
    THEN Panic
    ELSE NewAPIResponse(statusCode, FALSE, msg, errorCode, GoNil)

Success_CodeFromMsg(statusCode, msg, data) ==
    IF statusCode >= StatusBadRequest
    THEN Panic
    ELSE LET m == IF msg = <<>> THEN MsgSuccess ELSE msg
         IN  NewAPIResponse(statusCode, TRUE, m, msg, data)

Success_NoDefault(statusCode, msg, data) ==
    IF statusCode >= StatusBadRequest
    THEN Panic
    ELSE NewAPIResponse(statusCode, TRUE, msg, <<>>, data)

Success(statusCode, msg, data) ==
    IF statusCode >= StatusBadRequest
    THEN Panic
    ELSE LET m == IF msg = <<>> THEN MsgSuccess ELSE msg
         IN  NewAPIResponse(statusCode, TRUE, m, <<>>, data)

OK(msg, data) == Success(StatusOK, msg, data)

Created(msg, data) == Success(StatusCreated, msg, data)

List_DropMeta(msg, data, meta) ==
    LET m == IF msg = <<>> THEN MsgSuccess ELSE msg
    IN  NewAPIResponse(StatusOK, TRUE, m, <<>>, data)

List(msg, data, meta) ==
    LET m == IF msg = <<>> THEN MsgSuccess ELSE msg
        rsp == NewAPIResponse(StatusOK, TRUE, m, <<>>, data)
    IN  Return([rsp.resp EXCEPT !.Meta = meta])

BadRequest(msg, errorCode) ==
    Error(StatusBadRequest, IF msg = <<>> THEN MsgBadRequest ELSE msg, errorCode)

Unauthorized(msg, errorCode) ==
    Error(StatusUnauthorized, IF msg = <<>> THEN MsgUnauthorized ELSE msg, errorCode)

Forbidden(msg, errorCode) ==
    Error(StatusForbidden, IF msg = <<>> THEN MsgForbidden ELSE msg, errorCode)

NotFound(msg, errorCode) ==
    Error(StatusNotFound, IF msg = <<>> THEN MsgNotFound ELSE msg, errorCode)

Conflict(msg, errorCode) ==
    Error(StatusConflict, IF msg = <<>> THEN MsgConflict ELSE msg, errorCode)

InternalServerError(msg, errorCode) ==
    Error(StatusInternalServerError,
          IF msg = <<>> THEN MsgInternalServerError ELSE msg, errorCode)

(***************************************************************************)
(* encoding/json, as the library uses it.                                  *)
(*                                                                         *)
(* Marshal writes a string with every invalid byte replaced by U+FFFD.     *)
(* A field tagged omitempty is left out when it is a nil pointer or a nil  *)
(* interface; a typed nil inside an interface is written as null.          *)
(***************************************************************************)
CoerceUTF8(s) == [i \in 1..Len(s) |-> IF s[i] = BadByte THEN RuneError ELSE s[i]]

RECURSIVE MarshalValue(_)
RECURSIVE MarshalElems(_)
\* [ok, j]: the JSON value of a Go value, or ok = FALSE for an unsupported type
MarshalValue(v) ==
    CASE v.t = "nil" -> [ok |-> TRUE, j |-> JNull]
      [] v.t = "typednil" -> [ok |-> TRUE, j |-> JNull]
      [] v.t = "chan" -> [ok |-> FALSE, j |-> JNull]
      [] v.t = "string" -> [ok |-> TRUE, j |-> JString(CoerceUTF8(v.s))]
      [] v.t = "bool" -> [ok |-> TRUE, j |-> JBool(v.b)]
      [] v.t = "int" -> [ok |-> TRUE, j |-> JNumber(v.hi, v.lo)]
      [] v.t = "float64" -> [ok |-> TRUE, j |-> JNumber(v.hi, v.lo)]
      [] v.t = "slice" ->
            LET es == MarshalElems(v.elems)
            IN  [ok |-> es.ok, j |-> JArray(es.js)]

MarshalElems(vs) ==
    IF vs = <<>> THEN [ok |-> TRUE, js |-> <<>>]
    ELSE LET h == MarshalValue(Head(vs))
             t == MarshalElems(Tail(vs))
         IN  [ok |-> h.ok /\ t.ok, js |-> <<h.j>> \o t.js]

OmitEmptyAny_DropZero(key, v) ==
    IF v \in {GoNil, GoString(<<>>), GoBool(FALSE), GoInt(0, 0), GoSlice(<<>>)} THEN <<>>
    ELSE <<Member(key, MarshalValue(v).j)>>

\* the member written for an `any` field tagged omitempty
OmitEmptyAny(key, v) ==
    IF v = GoNil THEN <<>> ELSE <<Member(key, MarshalValue(v).j)>>

\* the member written for a *string field tagged omitempty
OmitEmptyPtr(key, p) ==
    IF p = NilPtr THEN <<>> ELSE <<Member(key, JString(CoerceUTF8(p[1])))>>

\* (string, error) of r.ToJson()
ToJson(r) ==
    IF ~MarshalValue(r.Data).ok \/ ~MarshalValue(r.Meta).ok
    THEN [str |-> EmptyText, err |-> UnsupportedTypeError]
    ELSE [str |-> ValidText(JObject(
                      <<Member("success", JBool(r.Success)),
                        Member("message", JString(CoerceUTF8(r.Message)))>>
                      \o OmitEmptyPtr("errorCode", r.ErrorCode)
                      \o OmitEmptyAny("data", r.Data)
                      \o OmitEmptyAny("meta", r.Meta))),
          err |-> NilErr]

(***************************************************************************)
(* Unmarshal.  A number stored into an `any` becomes a float64: an integer *)
(* of 2^53 + lo is rounded to the nearest even multiple of the spacing 2.  *)
(***************************************************************************)
RoundLo(lo) ==
    IF lo % 2 = 0 THEN lo
    ELSE IF (lo - 1) % 4 = 0 THEN lo - 1 ELSE lo + 1

ToFloat64(hi, lo) == IF hi = 0 THEN GoFloat64(0, lo) ELSE GoFloat64(hi, RoundLo(lo))

RECURSIVE DecodeAny(_)
RECURSIVE DecodeElems(_)
\* the Go value Unmarshal stores into an `any` field
DecodeAny(j) ==
    CASE j.j = "null" -> GoNil
      [] j.j = "bool" -> GoBool(j.b)
      [] j.j = "string" -> GoString(j.s)
      [] j.j = "number" -> ToFloat64(j.hi, j.lo)
      [] j.j = "array" -> GoSlice(DecodeElems(j.elems))

DecodeElems(js) ==
    IF js = <<>> THEN <<>> ELSE <<DecodeAny(Head(js))>> \o DecodeElems(Tail(js))

\* the keys the decoder is given; it matches a key to a field whatever the case
Keys == {"success", "message", "errorCode", "ERRORCODE", "data", "meta", "statusCode"}

Fold(k) ==
    CASE k = "success" -> "success"
      [] k = "message" -> "message"
      [] k \in {"errorCode", "ERRORCODE"} -> "errorcode"
      [] k = "data" -> "data"
      [] k = "meta" -> "meta"
      [] OTHER -> "-"

\* the name of a field in its tag, which an UnmarshalTypeError carries
FieldName(f) ==
    CASE f = "success" -> <<"success">>
      [] f = "message" -> <<"message">>
      [] f = "errorcode" -> <<"errorCode">>

\* one member stored into the struct: [resp, err], err the first error so far; the
\* position i of the member stands for the byte offset of its value
DecodeMember(st, m, i) ==
    LET f == Fold(m.k)
        v == m.v
        bad == [st EXCEPT !.err = IF st.err = NilErr
                                  THEN UnmarshalTypeError(FieldName(f), i) ELSE st.err]
    IN  CASE f = "success" ->
                IF v.j = "bool" THEN [st EXCEPT !.resp.Success = v.b]
                ELSE IF v.j = "null" THEN st ELSE bad
          [] f = "message" ->
                IF v.j = "string" THEN [st EXCEPT !.resp.Message = v.s]
                ELSE IF v.j = "null" THEN st ELSE bad
          [] f = "errorcode" ->
                IF v.j = "string" THEN [st EXCEPT !.resp.ErrorCode = Ptr(v.s)]
                ELSE IF v.j = "null" THEN [st EXCEPT !.resp.ErrorCode = NilPtr] ELSE bad
          [] f = "data" -> [st EXCEPT !.resp.Data = DecodeAny(v)]
          [] f = "meta" -> [st EXCEPT !.resp.Meta = DecodeAny(v)]
          [] OTHER -> st

RECURSIVE DecodeMembers(_, _, _)
DecodeMembers(st, ms, i) ==
    IF i > Len(ms) THEN st ELSE DecodeMembers(DecodeMember(st, ms[i], i), ms, i + 1)

\* (*APIResponse, error) of FromJsonToAPIResponse(dataByte)
FromJsonToAPIResponse(dataByte) ==
    CASE dataByte.text = "empty" -> [resp |-> NoResp, err |-> SyntaxError(0)]
      [] dataByte.text = "malformed" -> [resp |-> NoResp, err |-> SyntaxError(dataByte.off)]
      [] dataByte.text = "valid" ->
            IF dataByte.v.j = "null" THEN [resp |-> ZeroResponse, err |-> NilErr]
            ELSE IF dataByte.v.j # "object"
            THEN [resp |-> NoResp, err |-> UnmarshalTypeError(<<>>, 1)]
            ELSE LET st == DecodeMembers([resp |-> ZeroResponse, err |-> NilErr],
                                         dataByte.v.members, 1)
                 IN  IF st.err # NilErr THEN [resp |-> NoResp, err |-> st.err] ELSE st

(***************************************************************************)
(* The classifier of decoding errors.                                      *)
(*                                                                         *)
(* errors.As and errors.Is walk the tree of an error depth first: the      *)
(* error itself, then what it unwraps to, in order.  errors.As matches on  *)
(* the dynamic type, so a nil *json.SyntaxError stored in an error matches *)
(* and leaves the target nil; reading a field of it panics.                *)
(***************************************************************************)
NoMatch == [kind |-> "nomatch"]

RECURSIVE FirstAs(_, _)
RECURSIVE FirstAsIn(_, _)
\* the error errors.As stores in the target, or NoMatch
FirstAs(e, kinds) ==
    IF e.kind \in kinds THEN e
    ELSE IF e.kind \in {"wrapError", "joinError"} THEN FirstAsIn(e.errs, kinds)
    ELSE NoMatch

FirstAsIn(es, kinds) ==
    IF es = <<>> THEN NoMatch
    ELSE LET m == FirstAs(Head(es), kinds)
         IN  IF m # NoMatch THEN m ELSE FirstAsIn(Tail(es), kinds)

\* errors.Is(e, target) for a sentinel target
Is(e, target) == FirstAs(e, {target.kind}) # NoMatch

RECURSIVE Itoa(_)
\* %d
Itoa(n) ==
    LET d == <<"0", "1", "2", "3", "4", "5", "6", "7", "8", "9">>
    IN  IF n < 10 THEN <<d[n + 1]>> ELSE Itoa(n \div 10) \o <<d[(n % 10) + 1]>>

\* %q
Quote(s) == <<"\"">> \o s \o <<"\"">>

MsgSyntax(off) == <<"body contains badly-formed JSON (at character ">> \o Itoa(off) \o <<")">>
MsgUnexpectedEOF == <<"body contains badly-formed JSON">>
MsgType(field, off) ==
    <<"body contains incorrect JSON type [for field ">> \o Quote(field)
        \o <<"] (at character ">> \o Itoa(off) \o <<")">>
MsgEmpty == <<"body must not be empty">>

\* what a call of the classifier gives: a pair (ok, e), or a panic
Pair(ok, e) == [panicked |-> FALSE, ok |-> ok, e |-> e]
ClsPanic == [panicked |-> TRUE, ok |-> FALSE, e |-> NilErr]
New(text) == ErrorString(text, "IsJsonErrorGetDetails")

IsJsonErrorGetDetails(err) ==
    LET syntaxError == FirstAs(err, {"SyntaxError", "nil*SyntaxError"})
        unmarshalTypeError ==
            FirstAs(err, {"UnmarshalTypeError", "nil*UnmarshalTypeError"})
    IN  IF err = NilErr THEN Pair(FALSE, NilErr)
        ELSE IF syntaxError # NoMatch
        THEN IF syntaxError = NilSyntaxError THEN ClsPanic
             ELSE Pair(TRUE, New(MsgSyntax(syntaxError.Offset)))
        ELSE IF Is(err, ErrUnexpectedEOF) THEN Pair(TRUE, New(MsgUnexpectedEOF))
        ELSE IF unmarshalTypeError # NoMatch
        THEN IF unmarshalTypeError = NilUnmarshalTypeError THEN ClsPanic
             ELSE Pair(TRUE, New(MsgType(unmarshalTypeError.Field,
                                         unmarshalTypeError.Offset)))
        ELSE IF Is(err, EOF) THEN Pair(TRUE, New(MsgEmpty))
        ELSE Pair(FALSE, err)

(***************************************************************************)
(* The arguments the calls are made with.                                  *)
(***************************************************************************)
Msgs == {<<>>, <<"a">>, <<BadByte>>}
Codes == StrUpTo(MaxCodeLen)
DataVals ==
    {GoNil, GoTypedNil, GoChan, GoString(<<>>), GoString(<<"a">>), GoBool(FALSE),
     GoInt(0, 0), GoInt(1, 1), GoInt(1, 2), GoSlice(<<>>), GoSlice(<<GoInt(0, 1)>>),
     GoSlice(<<GoTypedNil>>)}

JVals ==
    {JNull, JBool(TRUE), JString(<<>>), JString(<<Space>>), JNumber(0, 0), JArray(<<>>)}
Members == {Member(k, v) : k \in Keys, v \in JVals}
Objects == UNION {[1..n -> Members] : n \in 0..MaxMembers}
Texts ==
    {EmptyText} \cup {MalformedText(o) : o \in 1..MaxOffset}
        \cup {ValidText(v) : v \in JVals} \cup {ValidText(JObject(ms)) : ms \in Objects}

Fields == {<<>>, <<"age">>}
LeafErrs ==
    {SyntaxError(o) : o \in 0..MaxOffset}
        \cup {UnmarshalTypeError(f, o) : f \in Fields, o \in 0..MaxOffset}
        \cup {ErrUnexpectedEOF, EOF, UnsupportedTypeError, NilSyntaxError,
              NilUnmarshalTypeError, ErrorString(<<"just a normal error">>, "caller")}

RECURSIVE ErrsOfDepth(_)
ErrsOfDepth(d) ==
    IF d = 0 THEN LeafErrs
    ELSE LET S == ErrsOfDepth(d - 1)
         IN  S \cup {WrapError(e) : e \in S} \cup {JoinError(a, b) : a \in S, b \in S}

Errs == {NilErr} \cup ErrsOfDepth(MaxDepth)

(***************************************************************************)
(* State: the most recent call and what it gave.                           *)
(***************************************************************************)
VARIABLES
    call,   \* the function called and its arguments
    out,    \* the envelope returned (or the panic); the receiver of ToJson
    text,   \* the string returned by ToJson
    err,    \* the error returned by ToJson or FromJsonToAPIResponse
    src,    \* the envelope whose JSON the decoder was given, when it was given one
    cls     \* what IsJsonErrorGetDetails gave

vars == <<call, out, text, err, src, cls>>

NoCall ==
    [op |-> "none", statusCode |-> 0, success |-> FALSE, msg |-> <<>>,
     errorCode |-> <<>>, data |-> GoNil, meta |-> GoNil,
     input |-> EmptyText, errIn |-> NilErr]
NoCls == [none |-> TRUE]
NoOut == Return(NoResp)

Init ==
    /\ call = NoCall
    /\ out = NoOut
    /\ text = EmptyText
    /\ err = NilErr
    /\ src = NoResp
    /\ cls = NoCls

\* a constructor was called with the arguments in c and gave o
Constructed(c, o) ==
    /\ call' = c
    /\ out' = o
    /\ text' = EmptyText
    /\ err' = NilErr
    /\ src' = NoResp
    /\ cls' = NoCls

CallNewAPIResponse ==
    call = NoCall /\ \E s \in StatusCodes, b \in BOOLEAN, m \in Msgs, c \in Codes, d \in DataVals :
        Constructed([NoCall EXCEPT !.op = "NewAPIResponse", !.statusCode = s,
                                   !.success = b, !.msg = m, !.errorCode = c, !.data = d],
                    NewAPIResponse(s, b, m, c, d))

CallError ==
    call = NoCall /\ \E s \in StatusCodes, m \in Msgs, c \in Codes :
        Constructed([NoCall EXCEPT !.op = "Error", !.statusCode = s, !.msg = m,
                                   !.errorCode = c],
                    Error(s, m, c))

CallSuccess ==
    call = NoCall /\ \E s \in StatusCodes, m \in Msgs, d \in DataVals :
        Constructed([NoCall EXCEPT !.op = "Success", !.statusCode = s, !.msg = m,
                                   !.data = d],
                    Success(s, m, d))

CallOK ==
    call = NoCall /\ \E m \in Msgs, d \in DataVals :
        Constructed([NoCall EXCEPT !.op = "OK", !.msg = m, !.data = d], OK(m, d))

CallCreated ==
    call = NoCall /\ \E m \in Msgs, d \in DataVals :
        Constructed([NoCall EXCEPT !.op = "Created", !.msg = m, !.data = d], Created(m, d))

CallList ==
    call = NoCall /\ \E m \in Msgs, d \in DataVals, mt \in DataVals :
        Constructed([NoCall EXCEPT !.op = "List", !.msg = m, !.data = d, !.meta = mt],
                    List(m, d, mt))

CallBadRequest ==
    call = NoCall /\ \E m \in Msgs, c \in Codes :
        Constructed([NoCall EXCEPT !.op = "BadRequest", !.msg = m, !.errorCode = c],
                    BadRequest(m, c))

CallUnauthorized ==
    call = NoCall /\ \E m \in Msgs, c \in Codes :
        Constructed([NoCall EXCEPT !.op = "Unauthorized", !.msg = m, !.errorCode = c],
                    Unauthorized(m, c))

CallForbidden ==
    call = NoCall /\ \E m \in Msgs, c \in Codes :
        Constructed([NoCall EXCEPT !.op = "Forbidden", !.msg = m, !.errorCode = c],
                    Forbidden(m, c))

CallNotFound ==
    call = NoCall /\ \E m \in Msgs, c \in Codes :
        Constructed([NoCall EXCEPT !.op = "NotFound", !.msg = m, !.errorCode = c],
                    NotFound(m, c))

CallConflict ==
    call = NoCall /\ \E m \in Msgs, c \in Codes :
        Constructed([NoCall EXCEPT !.op = "Conflict", !.msg = m, !.errorCode = c],
                    Conflict(m, c))

CallInternalServerError ==
    call = NoCall /\ \E m \in Msgs, c \in Codes :
        Constructed([NoCall EXCEPT !.op = "InternalServerError", !.msg = m,
                                   !.errorCode = c],
                    InternalServerError(m, c))

\* r.ToJson() on the envelope the last call returned
CallToJson ==
    /\ out.resp # NoResp
    /\ call' = [NoCall EXCEPT !.op = "ToJson"]
    /\ out' = out
    /\ text' = ToJson(out.resp).str
    /\ err' = ToJson(out.resp).err
    /\ src' = NoResp
    /\ cls' = NoCls

\* FromJsonToAPIResponse on the text dataByte; from is the envelope the text is the
\* JSON of, or NoResp
Decoded(dataByte, from) ==
    /\ call' = [NoCall EXCEPT !.op = "FromJsonToAPIResponse", !.input = dataByte]
    /\ out' = Return(FromJsonToAPIResponse(dataByte).resp)
    /\ text' = EmptyText
    /\ err' = FromJsonToAPIResponse(dataByte).err
    /\ src' = from
    /\ cls' = NoCls

\* FromJsonToAPIResponse on a text of the caller
CallFromJson == call = NoCall /\ \E t \in Texts : Decoded(t, NoResp)

\* FromJsonToAPIResponse on the string ToJson has just returned
CallFromJsonOfToJson ==
    /\ call.op = "ToJson"
    /\ err = NilErr
    /\ Decoded(text, out.resp)

Classified(e) ==
    /\ call' = [NoCall EXCEPT !.op = "IsJsonErrorGetDetails", !.errIn = e]
    /\ out' = NoOut
    /\ text' = EmptyText
    /\ err' = NilErr
    /\ src' = NoResp
    /\ cls' = IsJsonErrorGetDetails(e)

\* IsJsonErrorGetDetails on an error of the caller
CallIsJsonErrorGetDetails == call = NoCall /\ \E e \in Errs : Classified(e)

\* IsJsonErrorGetDetails on the error the last call returned
CallIsJsonErrorGetDetailsOfErr ==
    /\ call.op \in {"ToJson", "FromJsonToAPIResponse"}
    /\ Classified(err)

\* the caller is done with the result of the last call
Idle ==
    /\ call # NoCall
    /\ call' = NoCall
    /\ out' = NoOut
    /\ text' = EmptyText
    /\ err' = NilErr
    /\ src' = NoResp
    /\ cls' = NoCls

Next ==
    \/ CallNewAPIResponse
    \/ CallError
    \/ CallSuccess
    \/ CallOK
    \/ CallCreated
    \/ CallList
    \/ CallBadRequest
    \/ CallUnauthorized
    \/ CallForbidden
    \/ CallNotFound
    \/ CallConflict
    \/ CallInternalServerError
    \/ CallToJson
    \/ CallFromJson
    \/ CallFromJsonOfToJson
    \/ CallIsJsonErrorGetDetails
    \/ CallIsJsonErrorGetDetailsOfErr
    \/ Idle

Spec == Init /\ [][Next]_vars

(***************************************************************************)
(* Properties.                                                             *)
(***************************************************************************)
Resp == out.resp
Returned == ~out.panicked /\ Resp # NoResp

\* empty, or whitespace only
IsBlank(c) == \A i \in 1..Len(c) : c[i] = Space
Normalized(c) == IF IsBlank(c) THEN NilPtr ELSE Ptr(c)

SuccessOps == {"OK", "Created", "List"}
ErrorOps == {"BadRequest", "Unauthorized", "Forbidden", "NotFound", "Conflict",
             "InternalServerError"}
NamedOps == SuccessOps \cup ErrorOps

FixedStatus(op) ==
    CASE op \in {"OK", "List"} -> StatusOK
      [] op = "Created" -> StatusCreated
      [] op = "BadRequest" -> StatusBadRequest
      [] op = "Unauthorized" -> StatusUnauthorized
      [] op = "Forbidden" -> StatusForbidden
      [] op = "NotFound" -> StatusNotFound
      [] op = "Conflict" -> StatusConflict
      [] op = "InternalServerError" -> StatusInternalServerError

DefaultMsg(op) ==
    CASE op \in SuccessOps -> <<"Request was successful">>
      [] op = "BadRequest" -> <<"Request is in a bad format">>
      [] op = "Unauthorized" -> <<"Not authenticated to perform the requested action">>
      [] op = "Forbidden" -> <<"Not authorized to perform the requested action">>
      [] op = "NotFound" -> <<"Requested resource not found">>
      [] op = "Conflict" -> <<"Requested resource already exist">>
      [] op = "InternalServerError" -> <<"Something went wrong on our end.">>

\* C1: Error(s, msg, errorCode) panics and returns no envelope when s < 400; when
\* s >= 400 it returns the envelope with statusCode s, success false, message msg
\* as given (no default), no data, no meta, and the errorCode absent when the
\* argument is blank and the argument itself otherwise.
C1_Error ==
    call.op = "Error" =>
        IF call.statusCode < StatusBadRequest
        THEN out.panicked /\ Resp = NoResp
        ELSE /\ ~out.panicked
             /\ Resp = APIResponse(call.statusCode, FALSE, call.msg,
                                   Normalized(call.errorCode), GoNil, GoNil)

C1_Witness ==
    /\ call.op = "Error"
    /\ call.statusCode = StatusBadRequest
    /\ call.msg = <<>>
    /\ Returned
    /\ Resp.ErrorCode = Ptr(<<"a", Space>>)

\* C2: Success(s, msg, data) panics and returns no envelope when s >= 400; when
\* s < 400 it returns the envelope with statusCode s, success true, no errorCode,
\* the data as given, and the message msg, or "Request was successful" when msg
\* is empty.
C2_Success ==
    call.op = "Success" =>
        IF call.statusCode >= StatusBadRequest
        THEN out.panicked /\ Resp = NoResp
        ELSE /\ ~out.panicked
             /\ Resp.StatusCode = call.statusCode
             /\ Resp.Success = TRUE
             /\ Resp.ErrorCode = NilPtr
             /\ Resp.Data = call.data
             /\ Resp.Message = IF call.msg = <<>> THEN <<"Request was successful">>
                               ELSE call.msg

C2_Witness ==
    /\ call.op = "Success"
    /\ call.statusCode = StatusBadRequest - 1
    /\ call.msg = <<>>
    /\ call.data = GoString(<<>>)
    /\ Returned

\* C7: NewAPIResponse never fails, whatever the statusCode and success given, and
\* stores statusCode, success, msg and data as given, with no meta; its errorCode
\* is absent when the argument is empty or whitespace only, and is the argument
\* exactly as given (not trimmed) otherwise.
C7_NewAPIResponse ==
    call.op = "NewAPIResponse" =>
        /\ ~out.panicked
        /\ Resp = APIResponse(call.statusCode, call.success, call.msg,
                              Normalized(call.errorCode), call.data, GoNil)

C7_Witness ==
    /\ call.op = "NewAPIResponse"
    /\ call.statusCode = StatusInternalServerError
    /\ call.success = TRUE
    /\ call.errorCode = <<Space, "a">>
    /\ Returned
    /\ Resp.ErrorCode = Ptr(<<Space, "a">>)

\* C8: every named constructor returns, without failing, an envelope with its own
\* status code, with success exactly when that code is below 400, and with the
\* caller's message, or its own default message when the caller's is empty; List
\* stores the meta as given and returns what Success(200, msg, data) returns, with
\* the meta attached.
C8_Named ==
    call.op \in NamedOps =>
        /\ ~out.panicked
        /\ Resp # NoResp
        /\ Resp.StatusCode = FixedStatus(call.op)
        /\ Resp.Success = (call.op \in SuccessOps)
        /\ Resp.Success = (Resp.StatusCode < StatusBadRequest)
        /\ Resp.Message = IF call.msg = <<>> THEN DefaultMsg(call.op) ELSE call.msg
        /\ call.op = "List" =>
              /\ Resp.Meta = call.meta
              /\ Resp = [Success(StatusOK, call.msg, call.data).resp
                            EXCEPT !.Meta = call.meta]

C8_Witness ==
    /\ call.op = "List"
    /\ call.msg = <<>>
    /\ call.meta = GoSlice(<<>>)
    /\ Returned
    /\ Resp.Meta = GoSlice(<<>>)

\* C10, as claimed: in every envelope a constructor returns, an errorCode is present
\* only when success is false and a non-empty code was given.
C10_AsClaimed ==
    (call.op \in NamedOps \cup {"NewAPIResponse", "Error", "Success"} /\ Returned
        /\ Resp.ErrorCode # NilPtr)
    => (~Resp.Success /\ call.errorCode # <<>>)

\* C10, amended: in every envelope that Error, Success or a named constructor
\* returns, an errorCode is present only when success is false and a non-empty code
\* was given; NewAPIResponse stores a code that is not blank whatever success is, so
\* its envelope has an errorCode only when a non-empty code was given.
C10_Amended ==
    /\ (call.op \in NamedOps \cup {"Error", "Success"} /\ Returned
           /\ Resp.ErrorCode # NilPtr)
       => (~Resp.Success /\ call.errorCode # <<>>)
    /\ (call.op = "NewAPIResponse" /\ Resp.ErrorCode # NilPtr)
       => (call.errorCode # <<>> /\ Resp.Success = call.success)

C10_Witness ==
    /\ call.op = "BadRequest"
    /\ Returned
    /\ ~Resp.Success
    /\ Resp.ErrorCode = Ptr(<<"a">>)

\* C6, as claimed: in every envelope the library returns, by a constructor or by
\* the decoder, the errorCode is absent or a string that is not empty.
C6_ErrorCodeNeverEmpty == Resp # NoResp => Resp.ErrorCode # Ptr(<<>>)

KeysOf(t) == {t.v.members[i].k : i \in 1..Len(t.v.members)}

\* C9, as claimed: the object ToJson writes always has the keys success and message,
\* never has statusCode, has errorCode only if the errorCode is present and not
\* empty, and has data (meta) exactly if data (meta) is set.
C9_Keys ==
    (call.op = "ToJson" /\ err = NilErr) =>
        /\ text.text = "valid"
        /\ text.v.j = "object"
        /\ {"success", "message"} \subseteq KeysOf(text)
        /\ KeysOf(text) \subseteq {"success", "message", "errorCode", "data", "meta"}
        /\ "errorCode" \in KeysOf(text) =>
              (Resp.ErrorCode # NilPtr /\ Resp.ErrorCode # Ptr(<<>>))
        /\ "data" \in KeysOf(text) <=> Resp.Data # GoNil
        /\ "meta" \in KeysOf(text) <=> Resp.Meta # GoNil

\* what of a Data or Meta value shows in the JSON: nothing, or its JSON value
JsonView(v) == IF v = GoNil THEN <<>> ELSE <<MarshalValue(v).j>>

ValidUTF8(str) == \A i \in 1..Len(str) : str[i] # BadByte

RECURSIVE ExactNumbers(_)
\* every number in v is one a float64 holds exactly
ExactNumbers(v) ==
    CASE v.t \in {"int", "float64"} -> v.hi = 0 \/ v.lo % 2 = 0
      [] v.t = "slice" -> \A i \in 1..Len(v.elems) : ExactNumbers(v.elems[i])
      [] OTHER -> TRUE

\* absent, or a value whose JSON is not null and whose numbers are exact
Plain(v) == v = GoNil \/ (MarshalValue(v).j # JNull /\ ExactNumbers(v))

\* the decoder was given the JSON of src and returned Resp without error, and
\* Resp shows the same as src in JSON, with a zero statusCode
SameAsSource ==
    /\ err = NilErr
    /\ Resp # NoResp
    /\ Resp.Success = src.Success
    /\ Resp.Message = src.Message
    /\ Resp.ErrorCode = src.ErrorCode
    /\ JsonView(Resp.Data) = JsonView(src.Data)
    /\ JsonView(Resp.Meta) = JsonView(src.Meta)
    /\ Resp.StatusCode = 0

RoundTrip == call.op = "FromJsonToAPIResponse" /\ src # NoResp

\* C3, as claimed: for every envelope e whose ToJson succeeds, decoding ToJson(e)
\* succeeds and gives an envelope with the same success, message, errorCode, data
\* and meta as e, and a zero statusCode.
C3_AsClaimed == RoundTrip => SameAsSource

\* C3, amended: for every envelope e whose ToJson succeeds, whose message and
\* errorCode are valid UTF-8, and whose data and meta are each absent or have a
\* JSON value other than null in which every number is one a float64 holds
\* exactly, decoding ToJson(e) succeeds and gives an envelope with the same
\* success, message and errorCode, with data and meta equal to e's as JSON values
\* (absent stays absent; empty string, 0, false and empty list are kept), and a
\* zero statusCode.
C3_Amended ==
    (/\ RoundTrip
     /\ ValidUTF8(src.Message)
     /\ src.ErrorCode # NilPtr => ValidUTF8(src.ErrorCode[1])
     /\ Plain(src.Data)
     /\ Plain(src.Meta))
    => SameAsSource

C3_Witness ==
    /\ RoundTrip
    /\ src.ErrorCode = Ptr(<<"a", Space>>)
    /\ src.Data = GoSlice(<<>>)
    /\ src.StatusCode = StatusNotFound
    /\ SameAsSource
    /\ Resp.Data = GoSlice(<<>>)

RECURSIVE Nodes(_)
RECURSIVE NodesIn(_)
\* an error and all it wraps, in the order errors.As and errors.Is visit them
Nodes(e) ==
    IF e.kind \in {"wrapError", "joinError"} THEN <<e>> \o NodesIn(e.errs) ELSE <<e>>

NodesIn(es) == IF es = <<>> THEN <<>> ELSE Nodes(Head(es)) \o NodesIn(Tail(es))

Has(e, kinds) == \E i \in 1..Len(Nodes(e)) : Nodes(e)[i].kind \in kinds
First(e, kinds) ==
    LET ns == Nodes(e)
        i == CHOOSE k \in 1..Len(ns) :
                 /\ ns[k].kind \in kinds
                 /\ \A j \in 1..(k - 1) : ns[j].kind \notin kinds
    IN  ns[i]

SyntaxKinds == {"SyntaxError", "nil*SyntaxError"}
TypeKinds == {"UnmarshalTypeError", "nil*UnmarshalTypeError"}
NilPointerKinds == {"nil*SyntaxError", "nil*UnmarshalTypeError"}

\* r is what the rules give for e, the first rule that matches deciding
FirstMatchWins(e, r) ==
    /\ ~r.panicked
    /\ CASE e = NilErr -> r = Pair(FALSE, NilErr)
         [] Has(e, SyntaxKinds) ->
               r.ok /\ r.e.text = <<"body contains badly-formed JSON (at character ">>
                                     \o Itoa(First(e, SyntaxKinds).Offset) \o <<")">>
         [] Has(e, {"ErrUnexpectedEOF"}) ->
               r.ok /\ r.e.text = <<"body contains badly-formed JSON">>
         [] Has(e, TypeKinds) ->
               r.ok /\ r.e.text = <<"body contains incorrect JSON type [for field ", "\"">>
                                     \o First(e, TypeKinds).Field
                                     \o <<"\"", "] (at character ">>
                                     \o Itoa(First(e, TypeKinds).Offset) \o <<")">>
         [] Has(e, {"EOF"}) -> r.ok /\ r.e.text = <<"body must not be empty">>
         [] OTHER -> TRUE

\* r is a pair, with ok false exactly for nil and for an error of none of the four
\* kinds, and then the error itself; with ok true it is a new error
TotalPair(e, r) ==
    /\ ~r.panicked
    /\ ~r.ok <=> (e = NilErr \/ ~Has(e, SyntaxKinds \cup TypeKinds
                                        \cup {"ErrUnexpectedEOF", "EOF"}))
    /\ ~r.ok => r.e = e
    /\ r.ok => (r.e # NilErr /\ r.e # e)

Classifying == call.op = "IsJsonErrorGetDetails"

\* C4, as claimed: IsJsonErrorGetDetails gives, for every error, what the first of
\* its rules that matches gives: (false, nil) for nil; else the badly-formed
\* message with the offset for an error that is or wraps a syntax error; else the
\* badly-formed message for unexpected end of input; else the incorrect-type
\* message with field and offset for a type mismatch; else the empty-body message
\* for end of input.
C4_FirstMatchWins == Classifying => FirstMatchWins(call.errIn, cls)

\* C5, as claimed: IsJsonErrorGetDetails never raises: for every input it returns
\* a pair (ok, detail), ok false exactly for nil and for errors of none of the four
\* kinds, the detail then being the input itself, and otherwise a new error.
C5_Total == Classifying => TotalPair(call.errIn, cls)

\* For errors that hold no nil pointer of the two JSON error types, the call
\* returns, and returns what C4 and C5 say.
ClassifiedWithoutNilPointers ==
    (Classifying /\ ~Has(call.errIn, NilPointerKinds))
    => (FirstMatchWins(call.errIn, cls) /\ TotalPair(call.errIn, cls))

\* A nil pointer of one of the two types that the walk reaches first makes the
\* call panic, and nothing else does.
PanicsOnNilPointer ==
    Classifying =>
        (cls.panicked <=>
            \/ (Has(call.errIn, SyntaxKinds)
                  /\ First(call.errIn, SyntaxKinds) = NilSyntaxError)
            \/ (~Has(call.errIn, SyntaxKinds \cup {"ErrUnexpectedEOF"})
                  /\ Has(call.errIn, TypeKinds)
                  /\ First(call.errIn, TypeKinds) = NilUnmarshalTypeError))

\* Apart from the empty errorCode the decoder lets through, the object ToJson
\* writes is as C9 says: errorCode is written exactly when the pointer is not nil.
KeysWritten ==
    (call.op = "ToJson" /\ err = NilErr) =>
        /\ text.text = "valid"
        /\ text.v.j = "object"
        /\ {"success", "message"} \subseteq KeysOf(text)
        /\ KeysOf(text) \subseteq {"success", "message", "errorCode", "data", "meta"}
        /\ "errorCode" \in KeysOf(text) <=> Resp.ErrorCode # NilPtr
        /\ "data" \in KeysOf(text) <=> Resp.Data # GoNil
        /\ "meta" \in KeysOf(text) <=> Resp.Meta # GoNil

\* No constructor returns an envelope with an empty or blank errorCode.
ConstructorsNormalize ==
    (call.op \in NamedOps \cup {"NewAPIResponse", "Error", "Success"} /\ Returned)
    => (Resp.ErrorCode = NilPtr \/ ~IsBlank(Resp.ErrorCode[1]))

====
